---- MODULE Spec2Model ----
(***************************************************************************)
(* Model of the SQL AST renderer of package sqlast (query.go).             *)
(*                                                                         *)
(* Every node type is a record tagged by "type"; a nullable pointer or     *)
(* interface field is a sequence of length 0 (nil) or 1 (the value).       *)
(* Rendered text is a TLA+ string, built with \o exactly as the Go code    *)
(* builds it with += and fmt.Sprintf.  A call of Eval either returns text  *)
(* or panics (a method call on a nil interface value); XPanics(n) says     *)
(* when, and XEval(n) is the text returned otherwise.                      *)
(***************************************************************************)
EXTENDS Integers, Sequences, FiniteSets, TLC

VARIABLES node, outcome, out

vars == <<node, outcome, out>>

(***************************************************************************)
(* Bounds of the model.                                                    *)
(***************************************************************************)
\* longest list (Args, WithHints, Projection, GroupBy, Joins, CTEs,
\* OrderBy, Idents) of a node under evaluation
MaxLen == 2
\* deepest nesting of a query inside a query (Derived, QueryExpr, CTE)
MaxDepth == 1

(***************************************************************************)
(* Optional values and strings.                                            *)
(***************************************************************************)
None == <<>>

Some(v) == <<v>>

IsNil(o) == Len(o) = 0

Val(o) == o[1]

Opt(S) == {None} \cup {Some(v) : v \in S}

SeqsUpTo(S, n) == UNION {[1..k -> S] : k \in 0..n}

\* s contains sub as a contiguous substring
Contains(s, sub) ==
    \E i \in 1..(Len(s) - Len(sub) + 1) : SubSeq(s, i, i + Len(sub) - 1) = sub

RECURSIVE StringsJoin(_, _)
\* strings.Join(strs, sep)
StringsJoin(strs, sep) ==
    IF Len(strs) = 0 THEN ""
    ELSE IF Len(strs) = 1 THEN strs[1]
    ELSE strs[1] \o sep \o StringsJoin(Tail(strs), sep)

\* commaSeparatedString over the already rendered elements
commaSeparatedString(strs) == StringsJoin(strs, ", ")

RECURSIVE Concat(_)
\* the texts of a list appended one after the other (q += ... in a loop)
Concat(strs) ==
    IF Len(strs) = 0 THEN "" ELSE strs[1] \o Concat(Tail(strs))

(***************************************************************************)
(* Leaf nodes: identifiers, object names, opaque expressions.              *)
(***************************************************************************)
\* SQLIdent is a string type; Eval returns the name verbatim
SQLIdentEval(i) == i

SQLObjectName(idents) == [type |-> "SQLObjectName", Idents |-> idents]

SQLObjectNameEval(n) == StringsJoin(n.Idents, ".")

SQLIdentifier(i) == [type |-> "SQLIdentifier", Ident |-> i]

\* ASTNode.Eval of an expression slot (dynamic dispatch on the node type)
ASTNodeEval(n) ==
    CASE n.type = "SQLIdentifier" -> SQLIdentEval(n.Ident)
      [] n.type = "SQLObjectName" -> SQLObjectNameEval(n)

EvalAll(nodes) == [i \in 1..Len(nodes) |-> ASTNodeEval(nodes[i])]

(***************************************************************************)
(* JoinOperator (iota constants).                                          *)
(***************************************************************************)
Inner == 0
LeftOuter == 1
RightOuter == 2
FullOuter == 3
Implicit == 4
Cross == 5

JoinOperators == {Inner, LeftOuter, RightOuter, FullOuter, Implicit, Cross}

ConstrainedOperators == {Inner, LeftOuter, RightOuter, FullOuter}

(***************************************************************************)
(* JoinConstant: OnJoinConstant, UsingConstant, NaturalConstant.           *)
(***************************************************************************)
OnJoinConstant(n) == [type |-> "OnJoinConstant", Node |-> n]

UsingConstant(idents) == [type |-> "UsingConstant", Idents |-> idents]

NaturalConstant == [type |-> "NaturalConstant"]

Prefix(c) ==
    CASE c.type = "OnJoinConstant" -> ""
      [] c.type = "UsingConstant" -> ""
      [] c.type = "NaturalConstant" -> "NATURAL "

Suffix(c) ==
    CASE c.type = "OnJoinConstant" -> " ON " \o ASTNodeEval(c.Node)
      [] c.type = "UsingConstant" ->
            " USING(" \o StringsJoin(c.Idents, ", ") \o ")"
      [] c.type = "NaturalConstant" -> ""

(***************************************************************************)
(* SQLSelectItem.                                                          *)
(***************************************************************************)
UnnamedExpression(n) == [type |-> "UnnamedExpression", Node |-> n]

ExpressionWithAlias(e, a) ==
    [type |-> "ExpressionWithAlias", Expr |-> e, Alias |-> a]

QualifiedWildcard(p) == [type |-> "QualifiedWildcard", Prefix |-> p]

Wildcard == [type |-> "Wildcard"]

UnnamedExpressionEval(u) == ASTNodeEval(u.Node)

ExpressionWithAliasEval(e) ==
    ASTNodeEval(e.Expr) \o " AS " \o SQLIdentEval(e.Alias)

QualifiedWildcardEval(q) == SQLObjectNameEval(q.Prefix) \o ".*"

WildcardEval(w) == "*"

SQLSelectItemEval(i) ==
    CASE i.type = "UnnamedExpression" -> UnnamedExpressionEval(i)
      [] i.type = "ExpressionWithAlias" -> ExpressionWithAliasEval(i)
      [] i.type = "QualifiedWildcard" -> QualifiedWildcardEval(i)
      [] i.type = "Wildcard" -> WildcardEval(i)

EvalItems(items) == [i \in 1..Len(items) |-> SQLSelectItemEval(items[i])]

(***************************************************************************)
(* SQLOrderByExpr.                                                         *)
(***************************************************************************)
SQLOrderByExpr(e, asc) == [type |-> "SQLOrderByExpr", Expr |-> e, ASC |-> asc]

\* SQLOrderByExpr.Eval rendering an unset direction as ASC
SQLOrderByExprEvalDefaultAsc(s) ==
    IF IsNil(s.ASC) \/ Val(s.ASC) THEN ASTNodeEval(s.Expr) \o " ASC"
    ELSE ASTNodeEval(s.Expr) \o " DESC"

SQLOrderByExprEval(s) ==
    IF IsNil(s.ASC) THEN ASTNodeEval(s.Expr)
    ELSE IF Val(s.ASC) THEN ASTNodeEval(s.Expr) \o " ASC"
    ELSE ASTNodeEval(s.Expr) \o " DESC"

EvalOrderBy(obs) == [i \in 1..Len(obs) |-> SQLOrderByExprEval(obs[i])]

(***************************************************************************)
(* Constructors of the recursive node types.                               *)
(***************************************************************************)
Table(name, alias, args, hints) ==
    [type |-> "Table", Name |-> name, Alias |-> alias, Args |-> args,
     WithHints |-> hints]

Derived(q, alias) == [type |-> "Derived", SubQuery |-> q, Alias |-> alias]

Join(rel, op, c) == [type |-> "Join", Relation |-> rel, Op |-> op, Constant |-> c]

SQLSelect(distinct, proj, rel, joins, sel, groupBy, having) ==
    [type |-> "SQLSelect", Distinct |-> distinct, Projection |-> proj,
     Relation |-> rel, Joins |-> joins, Selection |-> sel,
     GroupBy |-> groupBy, Having |-> having]

SelectExpr(s) == [type |-> "SelectExpr", Select |-> s]

QueryExpr(q) == [type |-> "QueryExpr", Query |-> q]

SetOperationExpr(op, all, l, r) ==
    [type |-> "SetOperationExpr", Op |-> op, All |-> all, Left |-> l, Right |-> r]

CTE(alias, q) == [type |-> "CTE", Alias |-> alias, Query |-> q]

SQLQuery(ctes, body, orderBy, limit) ==
    [type |-> "SQLQuery", CTEs |-> ctes, Body |-> body, OrderBy |-> orderBy,
     Limit |-> limit]

(***************************************************************************)
(* SQLSetOperator.                                                         *)
(***************************************************************************)
UnionOperator == [type |-> "UnionOperator"]

ExceptOperator == [type |-> "ExceptOperator"]

IntersectOperator == [type |-> "IntersectOperator"]

SQLSetOperatorEval(o) ==
    CASE o.type = "UnionOperator" -> "UNION"
      [] o.type = "ExceptOperator" -> "EXCEPT"
      [] o.type = "IntersectOperator" -> "INTERSECT"

(***************************************************************************)
(* Eval of the recursive node types.  XPanics(n): the call panics (a nil   *)
(* JoinConstant is dereferenced somewhere in the walk); XEval(n): the text *)
(* returned when it does not.                                              *)
(***************************************************************************)
RECURSIVE TableFactorPanics(_), TableFactorEval(_)
RECURSIVE JoinPanics(_), JoinEval(_)
RECURSIVE SQLSelectPanics(_), SQLSelectEval(_)
RECURSIVE SQLSetExprPanics(_), SQLSetExprEval(_)
RECURSIVE SQLQueryPanics(_), SQLQueryEval(_)

\* the text appended for an optional clause: x when present, else nothing
When(present, x) == IF present THEN x ELSE ""

\* Table.Eval with the hints appended before the alias
TableEvalHintsFirst(t) ==
    SQLObjectNameEval(t.Name)
        \o When(Len(t.Args) # 0,
                "(" \o commaSeparatedString(EvalAll(t.Args)) \o ")")
        \o When(Len(t.WithHints) # 0,
                " WITH (" \o commaSeparatedString(EvalAll(t.WithHints)) \o ")")
        \o When(~IsNil(t.Alias), " AS " \o SQLIdentEval(Val(t.Alias)))

\* Table.Eval: name, then (args), then AS alias, then WITH (hints)
TableEval(t) ==
    SQLObjectNameEval(t.Name)
        \o When(Len(t.Args) # 0,
                "(" \o commaSeparatedString(EvalAll(t.Args)) \o ")")
        \o When(~IsNil(t.Alias), " AS " \o SQLIdentEval(Val(t.Alias)))
        \o When(Len(t.WithHints) # 0,
                " WITH (" \o commaSeparatedString(EvalAll(t.WithHints)) \o ")")

DerivedPanics(d) == SQLQueryPanics(d.SubQuery)

\* Derived.Eval wrapping the sub-query in parentheses
DerivedEvalParenthesized(d) ==
    "(" \o SQLQueryEval(d.SubQuery) \o ")"
        \o When(~IsNil(d.Alias), " AS " \o SQLIdentEval(Val(d.Alias)))

\* Derived.Eval: the sub-query's text, then AS alias
DerivedEval(d) ==
    SQLQueryEval(d.SubQuery)
        \o When(~IsNil(d.Alias), " AS " \o SQLIdentEval(Val(d.Alias)))

TableFactorPanics(f) ==
    CASE f.type = "Table" -> FALSE
      [] f.type = "Derived" -> DerivedPanics(f)

TableFactorEval(f) ==
    CASE f.type = "Table" -> TableEval(f)
      [] f.type = "Derived" -> DerivedEval(f)

\* j.Constant.Prefix() on a nil JoinConstant is a nil dereference; Cross and
\* Implicit never touch j.Constant
JoinPanics(j) ==
    \/ j.Op \in ConstrainedOperators /\ IsNil(j.Constant)
    \/ TableFactorPanics(j.Relation)

\* the keyword of a join that consults its constant
JoinKeyword(op) ==
    CASE op = Inner -> "JOIN "
      [] op = LeftOuter -> "LEFT JOIN "
      [] op = RightOuter -> "RIGHT JOIN "
      [] op = FullOuter -> "FULL JOIN "

\* Join.Eval with a space between CROSS JOIN and the relation
JoinEvalCrossSpaced(j) ==
    LET rel == TableFactorEval(j.Relation)
    IN  CASE j.Op \in ConstrainedOperators ->
                " " \o Prefix(Val(j.Constant)) \o JoinKeyword(j.Op) \o rel
                    \o Suffix(Val(j.Constant))
          [] j.Op = Cross -> " CROSS JOIN " \o rel
          [] j.Op = Implicit -> ", " \o rel
          [] OTHER -> ""

\* Join.Eval with a cross join appending the suffix of an attached constant
JoinEvalCrossSuffix(j) ==
    LET rel == TableFactorEval(j.Relation)
    IN  CASE j.Op \in ConstrainedOperators ->
                " " \o Prefix(Val(j.Constant)) \o JoinKeyword(j.Op) \o rel
                    \o Suffix(Val(j.Constant))
          [] j.Op = Cross ->
                " CROSS JOIN" \o rel
                    \o When(~IsNil(j.Constant), Suffix(Val(j.Constant)))
          [] j.Op = Implicit -> ", " \o rel
          [] OTHER -> ""

JoinEval(j) ==
    LET rel == TableFactorEval(j.Relation)
    IN  CASE j.Op \in ConstrainedOperators ->
                " " \o Prefix(Val(j.Constant)) \o JoinKeyword(j.Op) \o rel
                    \o Suffix(Val(j.Constant))
          [] j.Op = Cross -> " CROSS JOIN" \o rel
          [] j.Op = Implicit -> ", " \o rel
          [] OTHER -> ""

SQLSelectPanics(s) ==
    \/ ~IsNil(s.Relation) /\ TableFactorPanics(Val(s.Relation))
    \/ \E i \in 1..Len(s.Joins) : JoinPanics(s.Joins[i])

\* SQLSelect.Eval with HAVING appended before GROUP BY
SQLSelectEvalHavingFirst(s) ==
    "SELECT "
        \o When(s.Distinct, "DISTINCT ")
        \o commaSeparatedString(EvalItems(s.Projection))
        \o When(~IsNil(s.Relation), " FROM " \o TableFactorEval(Val(s.Relation)))
        \o Concat([i \in 1..Len(s.Joins) |-> JoinEval(s.Joins[i])])
        \o When(~IsNil(s.Selection), " WHERE " \o ASTNodeEval(Val(s.Selection)))
        \o When(~IsNil(s.Having), " HAVING " \o ASTNodeEval(Val(s.Having)))
        \o When(Len(s.GroupBy) # 0,
                " GROUP BY " \o commaSeparatedString(EvalAll(s.GroupBy)))

SQLSelectEval(s) ==
    "SELECT "
        \o When(s.Distinct, "DISTINCT ")
        \o commaSeparatedString(EvalItems(s.Projection))
        \o When(~IsNil(s.Relation), " FROM " \o TableFactorEval(Val(s.Relation)))
        \o Concat([i \in 1..Len(s.Joins) |-> JoinEval(s.Joins[i])])
        \o When(~IsNil(s.Selection), " WHERE " \o ASTNodeEval(Val(s.Selection)))
        \o When(Len(s.GroupBy) # 0,
                " GROUP BY " \o commaSeparatedString(EvalAll(s.GroupBy)))
        \o When(~IsNil(s.Having), " HAVING " \o ASTNodeEval(Val(s.Having)))

SelectExprPanics(s) == SQLSelectPanics(s.Select)

SelectExprEval(s) == SQLSelectEval(s.Select)

QueryExprPanics(q) == SQLQueryPanics(q.Query)

QueryExprEval(q) == "(" \o SQLQueryEval(q.Query) \o ")"

SetOperationExprPanics(s) ==
    SQLSetExprPanics(s.Left) \/ SQLSetExprPanics(s.Right)

\* SetOperationExpr.Eval with ALL glued to the operator
SetOperationExprEvalAllGlued(s) ==
    LET allStr == IF s.All THEN "ALL" ELSE ""
    IN  SQLSetExprEval(s.Left) \o " " \o SQLSetOperatorEval(s.Op) \o allStr
            \o " " \o SQLSetExprEval(s.Right)

\* SetOperationExpr.Eval appending ALL whatever the flag
SetOperationExprEvalAlwaysAll(s) ==
    LET allStr == " ALL"
    IN  SQLSetExprEval(s.Left) \o " " \o SQLSetOperatorEval(s.Op) \o allStr
            \o " " \o SQLSetExprEval(s.Right)

SetOperationExprEval(s) ==
    LET allStr == IF s.All THEN " ALL" ELSE ""
    IN  SQLSetExprEval(s.Left) \o " " \o SQLSetOperatorEval(s.Op) \o allStr
            \o " " \o SQLSetExprEval(s.Right)

\* the SQLSetExpr interface: the tests also put a *SQLSelect in a Body
SQLSetExprPanics(e) ==
    CASE e.type = "SelectExpr" -> SelectExprPanics(e)
      [] e.type = "QueryExpr" -> QueryExprPanics(e)
      [] e.type = "SetOperationExpr" -> SetOperationExprPanics(e)
      [] e.type = "SQLSelect" -> SQLSelectPanics(e)

SQLSetExprEval(e) ==
    CASE e.type = "SelectExpr" -> SelectExprEval(e)
      [] e.type = "QueryExpr" -> QueryExprEval(e)
      [] e.type = "SetOperationExpr" -> SetOperationExprEval(e)
      [] e.type = "SQLSelect" -> SQLSelectEval(e)

CTEEval(cte) ==
    SQLIdentEval(cte.Alias) \o " AS (" \o SQLQueryEval(cte.Query) \o ")"

SQLQueryPanics(s) ==
    \/ \E i \in 1..Len(s.CTEs) : SQLQueryPanics(s.CTEs[i].Query)
    \/ SQLSetExprPanics(s.Body)

\* SQLQuery.Eval without the space between the WITH clause and the body
SQLQueryEvalNoSpace(s) ==
    When(Len(s.CTEs) # 0,
         "WITH " \o StringsJoin([i \in 1..Len(s.CTEs) |-> CTEEval(s.CTEs[i])], ", "))
        \o SQLSetExprEval(s.Body)
        \o When(Len(s.OrderBy) # 0,
                " ORDER BY " \o commaSeparatedString(EvalOrderBy(s.OrderBy)))
        \o When(~IsNil(s.Limit), " LIMIT " \o ASTNodeEval(Val(s.Limit)))

SQLQueryEval(s) ==
    When(Len(s.CTEs) # 0,
         "WITH " \o StringsJoin([i \in 1..Len(s.CTEs) |-> CTEEval(s.CTEs[i])], ", ")
                 \o " ")
        \o SQLSetExprEval(s.Body)
        \o When(Len(s.OrderBy) # 0,
                " ORDER BY " \o commaSeparatedString(EvalOrderBy(s.OrderBy)))
        \o When(~IsNil(s.Limit), " LIMIT " \o ASTNodeEval(Val(s.Limit)))

(***************************************************************************)
(* The bounded set of trees handed to Eval.                                *)
(***************************************************************************)
IdentNames == {"a", "b"}

ExprNodes == {SQLIdentifier("x"), SQLObjectName(<<"s", "y">>)}

ObjectNames == {SQLObjectName(<<"t">>), SQLObjectName(<<"s", "u">>)}

T1 == Table(SQLObjectName(<<"t">>), None, <<>>, <<>>)

T2 == Table(SQLObjectName(<<"s", "u">>), Some("a"), <<SQLIdentifier("x")>>, <<>>)

TableSamples == {T1, T2}

JoinConstants ==
    {NaturalConstant}
        \cup {OnJoinConstant(n) : n \in ExprNodes}
        \cup {UsingConstant(ids) : ids \in SeqsUpTo(IdentNames, MaxLen)}

\* joins of a select under evaluation: a constrained join and a cross join
\* without a constant
JoinSamples ==
    {Join(T2, Inner, Some(NaturalConstant)),
     Join(T1, Cross, None)}

ItemSamples ==
    {Wildcard,
     UnnamedExpression(SQLIdentifier("x")),
     ExpressionWithAlias(SQLObjectName(<<"s", "y">>), "a"),
     QualifiedWildcard(SQLObjectName(<<"t">>))}

SQLOrderByExprs == {SQLOrderByExpr(e, asc) : e \in ExprNodes, asc \in Opt(BOOLEAN)}

\* order-by items of a query under evaluation: unset, ASC and DESC
OrderBySamples ==
    {SQLOrderByExpr(SQLIdentifier("x"), None),
     SQLOrderByExpr(SQLIdentifier("x"), Some(TRUE)),
     SQLOrderByExpr(SQLObjectName(<<"s", "y">>), Some(FALSE))}

\* projection items of a select under evaluation
ProjectionSamples ==
    {UnnamedExpression(SQLIdentifier("x")),
     ExpressionWithAlias(SQLObjectName(<<"s", "y">>), "a")}

SetOperators == {UnionOperator, ExceptOperator, IntersectOperator}

\* a select with every clause present
FullSelect ==
    SQLSelect(TRUE,
              <<UnnamedExpression(SQLIdentifier("x")),
                ExpressionWithAlias(SQLObjectName(<<"s", "y">>), "a")>>,
              Some(T1), <<Join(T2, Inner, Some(OnJoinConstant(SQLIdentifier("x"))))>>,
              Some(SQLIdentifier("x")), <<SQLIdentifier("x")>>,
              Some(SQLObjectName(<<"s", "y">>)))

RECURSIVE QuerySamples(_)
\* nested trees, by the depth of query nesting below them
TableFactorSamples(d) ==
    TableSamples
        \cup (IF d = 0 THEN {}
              ELSE {Derived(q, Some("d")) : q \in QuerySamples(d - 1)})

SelectSamples(d) ==
    {SQLSelect(FALSE, <<Wildcard>>, Some(f), <<>>, None, <<>>, None) :
        f \in TableFactorSamples(d)}
        \cup {FullSelect}

RECURSIVE SetExprSamples(_)
SetExprSamples(d) ==
    {SelectExpr(s) : s \in SelectSamples(d)}
        \cup (IF d = 0 THEN {}
              ELSE {QueryExpr(q) : q \in QuerySamples(d - 1)}
                     \cup {SetOperationExpr(UnionOperator, TRUE, e, e) :
                             e \in SetExprSamples(d - 1)})

QuerySamples(d) ==
    {SQLQuery(<<>>, b, <<>>, None) : b \in SetExprSamples(d)}
        \cup {SQLQuery(<<>>, FullSelect,
                       <<SQLOrderByExpr(SQLIdentifier("x"), None)>>,
                       Some(SQLIdentifier("x")))}
        \cup (IF d = 0 THEN {}
              ELSE {SQLQuery(<<CTE("c", q)>>, SelectExpr(FullSelect), <<>>, None) :
                      q \in QuerySamples(d - 1)})

\* a select whose join was built without a constant
BrokenSelect ==
    SQLSelect(FALSE, <<Wildcard>>, Some(T1), <<Join(T2, RightOuter, None)>>,
              None, <<>>, None)

\* CTEs of a query under evaluation; the query of the last one panics
CTESamples ==
    {CTE("c", SQLQuery(<<>>, SelectExpr(FullSelect), <<>>, None)),
     CTE("b", SQLQuery(<<>>,
                       SQLSelect(FALSE, <<Wildcard>>, Some(T1), <<>>, None, <<>>, None),
                       <<>>, Some(SQLIdentifier("x")))),
     CTE("p", SQLQuery(<<>>, SelectExpr(BrokenSelect), <<>>, None))}

Tables ==
    {Table(n, a, args, hints) :
        n \in ObjectNames, a \in Opt(IdentNames),
        args \in SeqsUpTo(ExprNodes, MaxLen), hints \in SeqsUpTo(ExprNodes, MaxLen)}

Deriveds ==
    {Derived(q, a) :
        q \in QuerySamples(MaxDepth) \cup {SQLQuery(<<>>, BrokenSelect, <<>>, None)},
        a \in Opt(IdentNames)}

Joins ==
    {Join(f, op, c) :
        f \in TableFactorSamples(MaxDepth), op \in JoinOperators,
        c \in Opt(JoinConstants)}

SelectRelations == {T1, Derived(SQLQuery(<<>>, FullSelect, <<>>, None), Some("d"))}

\* joins attach to a base relation: no joins when Relation is nil
SQLSelects ==
    {SQLSelect(d, p, r, j, w, g, h) :
        d \in BOOLEAN,
        p \in SeqsUpTo(ProjectionSamples, MaxLen) \ {<<>>},
        r \in {Some(f) : f \in SelectRelations},
        j \in SeqsUpTo(JoinSamples, MaxLen),
        w \in Opt({SQLIdentifier("x")}),
        g \in SeqsUpTo(ExprNodes, MaxLen),
        h \in Opt({SQLObjectName(<<"s", "y">>)})}
        \cup
    {SQLSelect(d, p, None, <<>>, w, g, h) :
        d \in BOOLEAN,
        p \in SeqsUpTo(ProjectionSamples, MaxLen) \ {<<>>},
        w \in Opt({SQLIdentifier("x")}),
        g \in SeqsUpTo(ExprNodes, MaxLen),
        h \in Opt({SQLObjectName(<<"s", "y">>)})}
        \cup
    {SQLSelect(FALSE, <<Wildcard>>, Some(T1), <<j, Join(T2, op, None)>>,
               None, <<>>, None) :
        j \in JoinSamples, op \in JoinOperators}

SelectExprs == {SelectExpr(s) : s \in SelectSamples(MaxDepth) \cup {BrokenSelect}}

QueryExprs ==
    {QueryExpr(q) :
        q \in QuerySamples(MaxDepth) \cup {SQLQuery(<<>>, BrokenSelect, <<>>, None)}}

SetOperationExprs ==
    {SetOperationExpr(op, all, l, r) :
        op \in SetOperators, all \in BOOLEAN,
        l \in SetExprSamples(MaxDepth) \cup {SelectExpr(BrokenSelect)},
        r \in SetExprSamples(MaxDepth)}

\* bodies of a query under evaluation: a select (wrapped and bare), a
\* parenthesized query, set operations, and a select that panics
BodySamples ==
    {SelectExpr(FullSelect),
     SQLSelect(FALSE, <<Wildcard>>, Some(T1), <<>>, None, <<>>, None),
     QueryExpr(SQLQuery(<<>>, FullSelect, <<>>, None)),
     SetOperationExpr(ExceptOperator, FALSE, SelectExpr(FullSelect),
                      SelectExpr(FullSelect)),
     SelectExpr(BrokenSelect)}

SQLQuerys ==
    {SQLQuery(c, b, o, l) :
        c \in SeqsUpTo(CTESamples, MaxLen),
        b \in BodySamples,
        o \in SeqsUpTo(OrderBySamples, MaxLen),
        l \in Opt({SQLIdentifier("x")})}

(***************************************************************************)
(* The state machine: a caller holds one tree (node) and calls its Eval    *)
(* once; the call returns text (out) or panics.                            *)
(***************************************************************************)
Init ==
    /\ outcome = "pending"
    /\ out = ""
    /\ \/ node \in Tables
       \/ node \in Deriveds
       \/ node \in Joins
       \/ node \in SQLSelects
       \/ node \in SelectExprs
       \/ node \in QueryExprs
       \/ node \in SetOperationExprs
       \/ node \in SQLOrderByExprs
       \/ node \in ItemSamples
       \/ node \in SQLQuerys

\* the call completes: a panic leaves no text
Finish(panics, text) ==
    /\ outcome' = IF panics THEN "panicked" ELSE "returned"
    /\ out' = IF panics THEN "" ELSE text
    /\ UNCHANGED node

CallTableEval ==
    /\ outcome = "pending" /\ node.type = "Table"
    /\ Finish(FALSE, TableEval(node))

CallDerivedEval ==
    /\ outcome = "pending" /\ node.type = "Derived"
    /\ Finish(DerivedPanics(node), DerivedEval(node))

CallJoinEval ==
    /\ outcome = "pending" /\ node.type = "Join"
    /\ Finish(JoinPanics(node), JoinEval(node))

CallSQLSelectEval ==
    /\ outcome = "pending" /\ node.type = "SQLSelect"
    /\ Finish(SQLSelectPanics(node), SQLSelectEval(node))

CallSelectExprEval ==
    /\ outcome = "pending" /\ node.type = "SelectExpr"
    /\ Finish(SelectExprPanics(node), SelectExprEval(node))

CallQueryExprEval ==
    /\ outcome = "pending" /\ node.type = "QueryExpr"
    /\ Finish(QueryExprPanics(node), QueryExprEval(node))

CallSetOperationExprEval ==
    /\ outcome = "pending" /\ node.type = "SetOperationExpr"
    /\ Finish(SetOperationExprPanics(node), SetOperationExprEval(node))

CallSQLOrderByExprEval ==
    /\ outcome = "pending" /\ node.type = "SQLOrderByExpr"
    /\ Finish(FALSE, SQLOrderByExprEval(node))

CallSQLSelectItemEval ==
    /\ outcome = "pending"
    /\ node.type \in {"UnnamedExpression", "ExpressionWithAlias",
                      "QualifiedWildcard", "Wildcard"}
    /\ Finish(FALSE, SQLSelectItemEval(node))

CallSQLQueryEval ==
    /\ outcome = "pending" /\ node.type = "SQLQuery"
    /\ Finish(SQLQueryPanics(node), SQLQueryEval(node))

Next ==
    \/ CallTableEval
    \/ CallDerivedEval
    \/ CallJoinEval
    \/ CallSQLSelectEval
    \/ CallSelectExprEval
    \/ CallQueryExprEval
    \/ CallSetOperationExprEval
    \/ CallSQLOrderByExprEval
    \/ CallSQLSelectItemEval
    \/ CallSQLQueryEval

Spec == Init /\ [][Next]_vars

(***************************************************************************)
(* Properties.                                                             *)
(***************************************************************************)
Returned == outcome = "returned"

Panicked == outcome = "panicked"

FirstChar(s) == SubSeq(s, 1, 1)

LastChar(s) == SubSeq(s, Len(s), Len(s))

\* the renders of the joins of a select, in list order
JoinRenders(s) == [i \in 1..Len(s.Joins) |-> JoinEval(s.Joins[i])]

\* the clauses of a SELECT, in the order the format fixes
SelectClauses(s) ==
    <<"SELECT ",
      IF s.Distinct THEN "DISTINCT " ELSE "",
      StringsJoin(EvalItems(s.Projection), ", "),
      IF IsNil(s.Relation) THEN "" ELSE " FROM " \o TableFactorEval(Val(s.Relation)),
      Concat(JoinRenders(s)),
      IF IsNil(s.Selection) THEN "" ELSE " WHERE " \o ASTNodeEval(Val(s.Selection)),
      IF Len(s.GroupBy) = 0 THEN ""
      ELSE " GROUP BY " \o StringsJoin(EvalAll(s.GroupBy), ", "),
      IF IsNil(s.Having) THEN "" ELSE " HAVING " \o ASTNodeEval(Val(s.Having))>>

\* C1: a SQLSelect with a non-empty Projection renders as exactly "SELECT ",
\* "DISTINCT " iff Distinct, the items joined by ", ", " FROM <relation>" iff
\* Relation is present, every join's render in list order with nothing
\* between them, " WHERE <predicate>" iff Selection is present,
\* " GROUP BY <exprs joined by ', '>" iff GroupBy is non-empty and
\* " HAVING <predicate>" iff Having is present, and nothing else: the text
\* neither starts nor ends with a space.
C1_SelectRender ==
    (node.type = "SQLSelect" /\ Len(node.Projection) > 0 /\ Returned) =>
        /\ out = Concat(SelectClauses(node))
        /\ FirstChar(out) # " "
        /\ LastChar(out) # " "

C1_Witness ==
    /\ node.type = "SQLSelect" /\ Returned
    /\ node.Distinct /\ Len(node.Projection) = 2
    /\ ~IsNil(node.Relation)
    /\ Len(node.Joins) = 2 /\ node.Joins[1] # node.Joins[2]
    /\ ~IsNil(node.Selection) /\ Len(node.GroupBy) = 2 /\ ~IsNil(node.Having)

\* the renders of the CTEs of a query, each "<alias> AS (<query>)"
CTERenders(q) ==
    [i \in 1..Len(q.CTEs) |->
        q.CTEs[i].Alias \o " AS (" \o SQLQueryEval(q.CTEs[i].Query) \o ")"]

QueryClauses(q) ==
    <<IF Len(q.CTEs) = 0 THEN "" ELSE "WITH " \o StringsJoin(CTERenders(q), ", ") \o " ",
      SQLSetExprEval(q.Body),
      IF Len(q.OrderBy) = 0 THEN ""
      ELSE " ORDER BY " \o StringsJoin(EvalOrderBy(q.OrderBy), ", "),
      IF IsNil(q.Limit) THEN "" ELSE " LIMIT " \o ASTNodeEval(Val(q.Limit))>>

\* C2: a SQLQuery renders as exactly "WITH " and the CTEs, each
\* "<alias> AS (<query>)", joined by ", " and followed by one space (iff CTEs
\* is non-empty), the body's render, " ORDER BY " and the items joined by
\* ", " (iff OrderBy is non-empty), " LIMIT <limit>" (iff Limit is present);
\* with no CTEs, no OrderBy and no Limit the text is the body's render.
C2_QueryRender ==
    (node.type = "SQLQuery" /\ Returned) =>
        /\ out = Concat(QueryClauses(node))
        /\ (Len(node.CTEs) = 0 /\ Len(node.OrderBy) = 0 /\ IsNil(node.Limit)) =>
                out = SQLSetExprEval(node.Body)

C2_Witness ==
    /\ node.type = "SQLQuery" /\ Returned
    /\ Len(node.CTEs) = 2 /\ node.CTEs[1] # node.CTEs[2]
    /\ Len(node.OrderBy) = 2 /\ ~IsNil(node.Limit)

\* the text before and after the relation that a join constant supplies
ConstantPrefix(c) == IF c.type = "NaturalConstant" THEN "NATURAL " ELSE ""

ConstantSuffix(c) ==
    CASE c.type = "NaturalConstant" -> ""
      [] c.type = "OnJoinConstant" -> " ON " \o ASTNodeEval(c.Node)
      [] c.type = "UsingConstant" -> " USING(" \o StringsJoin(c.Idents, ", ") \o ")"

JoinTemplate(j, kw) ==
    " " \o ConstantPrefix(Val(j.Constant)) \o kw \o " "
        \o TableFactorEval(j.Relation) \o ConstantSuffix(Val(j.Constant))

\* C3: a Join renders by operator: Inner " <prefix>JOIN <relation><suffix>",
\* LeftOuter, RightOuter and FullOuter the same with LEFT JOIN, RIGHT JOIN
\* and FULL JOIN, Cross " CROSS JOIN<relation>" with no space before the
\* relation, Implicit ", <relation>"; Natural supplies the prefix "NATURAL ",
\* On the suffix " ON <predicate>", Using the suffix " USING(<columns>)".
C3_JoinRender ==
    (node.type = "Join" /\ Returned) =>
        /\ node.Op = Inner => out = JoinTemplate(node, "JOIN")
        /\ node.Op = LeftOuter => out = JoinTemplate(node, "LEFT JOIN")
        /\ node.Op = RightOuter => out = JoinTemplate(node, "RIGHT JOIN")
        /\ node.Op = FullOuter => out = JoinTemplate(node, "FULL JOIN")
        /\ node.Op = Cross => out = " CROSS JOIN" \o TableFactorEval(node.Relation)
        /\ node.Op = Implicit => out = ", " \o TableFactorEval(node.Relation)

C3_Witness ==
    /\ node.type = "Join" /\ Returned
    /\ node.Op = FullOuter
    /\ ~IsNil(node.Constant)
    /\ Val(node.Constant).type = "UsingConstant"
    /\ Len(Val(node.Constant).Idents) = 2

\* C4: rendering never fails: every call of Eval, also of a Join whose
\* operator is Inner, LeftOuter, RightOuter or FullOuter and whose constant
\* is none, returns text.
C4_RenderingNeverFails == ~Panicked

\* C5: a SetOperationExpr renders as "<left> <OP> <right>" when All is false
\* and "<left> <OP> ALL <right>" when All is true, OP being UNION, EXCEPT or
\* INTERSECT, with single spaces and no parentheses of its own.
C5_SetOperationRender ==
    (node.type = "SetOperationExpr" /\ Returned) =>
        LET l == SQLSetExprEval(node.Left)
            r == SQLSetExprEval(node.Right)
            op == CASE node.Op.type = "UnionOperator" -> "UNION"
                    [] node.Op.type = "ExceptOperator" -> "EXCEPT"
                    [] node.Op.type = "IntersectOperator" -> "INTERSECT"
        IN  out = IF node.All THEN l \o " " \o op \o " ALL " \o r
                  ELSE l \o " " \o op \o " " \o r

C5_Witness ==
    /\ node.type = "SetOperationExpr" /\ Returned
    /\ node.All /\ node.Op = IntersectOperator
    /\ node.Left.type = "QueryExpr" /\ node.Right.type = "SelectExpr"

\* C6 as stated: with All false the operator is followed by one space and
\* the right operand, and the text contains no "ALL", whatever the operands.
C6_NoAllSubstring ==
    (node.type = "SetOperationExpr" /\ ~node.All /\ Returned) =>
        /\ out = SQLSetExprEval(node.Left) \o " " \o SQLSetOperatorEval(node.Op)
                    \o " " \o SQLSetExprEval(node.Right)
        /\ ~Contains(out, "ALL")

\* C6 as amended: with All false the operator is followed by one space and
\* the right operand, and the text contains "ALL" only where the render of
\* the left or of the right operand contains it.
C6_NoAllOfItsOwn ==
    (node.type = "SetOperationExpr" /\ ~node.All /\ Returned) =>
        LET l == SQLSetExprEval(node.Left)
            r == SQLSetExprEval(node.Right)
        IN  /\ out = l \o " " \o SQLSetOperatorEval(node.Op) \o " " \o r
            /\ Contains(out, "ALL") => (Contains(l, "ALL") \/ Contains(r, "ALL"))

C6_Witness ==
    /\ node.type = "SetOperationExpr" /\ ~node.All /\ Returned
    /\ node.Left.type = "SetOperationExpr" /\ node.Left.All
    /\ Contains(out, "ALL")

C8_TableRender ==
    (node.type = "Table" /\ Returned) =>
        out = Concat(<<StringsJoin(node.Name.Idents, "."),
                       IF Len(node.Args) = 0 THEN ""
                       ELSE "(" \o StringsJoin(EvalAll(node.Args), ", ") \o ")",
                       IF IsNil(node.Alias) THEN "" ELSE " AS " \o Val(node.Alias),
                       IF Len(node.WithHints) = 0 THEN ""
                       ELSE " WITH (" \o StringsJoin(EvalAll(node.WithHints), ", ")
                                \o ")">>)

C8_Witness ==
    /\ node.type = "Table" /\ Returned
    /\ Len(node.Args) = 2 /\ ~IsNil(node.Alias) /\ Len(node.WithHints) = 2
    /\ node.Args # node.WithHints

\* C9: a Derived renders its sub-query as SQLQuery.Eval renders it, without
\* parentheses, then " AS <alias>" iff Alias is present; a QueryExpr renders
\* its query as "(<query render>)".
C9_DerivedAndQueryExpr ==
    /\ (node.type = "Derived" /\ Returned) =>
            out = SQLQueryEval(node.SubQuery)
                    \o (IF IsNil(node.Alias) THEN "" ELSE " AS " \o Val(node.Alias))
    /\ (node.type = "QueryExpr" /\ Returned) =>
            out = "(" \o SQLQueryEval(node.Query) \o ")"

C9_Witness ==
    /\ node.type = "Derived" /\ Returned
    /\ ~IsNil(node.Alias)
    /\ Len(node.SubQuery.OrderBy) > 0
    /\ QueryExpr(node.SubQuery) \in QueryExprs

\* C10: a SQLOrderByExpr renders as the bare expression when the direction
\* is unset, "<expr> ASC" when it is true and "<expr> DESC" when it is false;
\* so a query with one order-by item of unset direction and a Limit appends
\* exactly " ORDER BY <expr> LIMIT <limit>" to its body, with no ASC or DESC.
C10_OrderByRender ==
    /\ (node.type = "SQLOrderByExpr" /\ Returned) =>
            out = ASTNodeEval(node.Expr)
                    \o (IF IsNil(node.ASC) THEN ""
                        ELSE IF Val(node.ASC) THEN " ASC" ELSE " DESC")
    /\ (/\ node.type = "SQLQuery" /\ Returned
        /\ Len(node.OrderBy) = 1 /\ IsNil(node.OrderBy[1].ASC)
        /\ ~IsNil(node.Limit)) =>
            LET tail == " ORDER BY " \o ASTNodeEval(node.OrderBy[1].Expr)
                            \o " LIMIT " \o ASTNodeEval(Val(node.Limit))
            IN  /\ out = SQLQueryEval([node EXCEPT !.OrderBy = <<>>, !.Limit = None])
                            \o tail
                /\ ~Contains(tail, " ASC")
                /\ ~Contains(tail, " DESC")

C10_Witness ==
    /\ node.type = "SQLQuery" /\ Returned
    /\ Len(node.OrderBy) = 1 /\ IsNil(node.OrderBy[1].ASC)
    /\ ~IsNil(node.Limit)
    /\ Len(node.CTEs) > 0

====
